---------------------------- MODULE Spec2Model ----------------------------
(***************************************************************************)
(* A model of the ledger of src/index.ts: Transaction, Block, Chain        *)
(* (addBlock, mine, lastBlock) and Wallet.sendMoney.                       *)
(*                                                                         *)
(* Chain.addBlock is modelled statement by statement (the labels are the   *)
(* line numbers of src/index.ts), so that the order of its pushes, its     *)
(* signature check and its proof-of-work loop can be observed.  Under Spec *)
(* one caller runs each admission to completion before the next begins, as *)
(* the single-threaded program does; under SpecInterleaved two callers     *)
(* take their steps in any order.                                          *)
(***************************************************************************)
EXTENDS Integers, Sequences, FiniteSets, TLC

(***************************************************************************)
(* Bounds of the model.                                                    *)
(***************************************************************************)
\* a call of addBlock begins only when the chain stays within this length
MaxChain == 5
\* the proof-of-work loop is followed up to this value of `solution`
MaxSolution == 4

VARIABLES
    chain,      \* Chain.instance.chain: the sequence of blocks
    pc,         \* per caller: the statement of addBlock it is at, or "idle"
    frame,      \* per caller: parameters and locals of addBlock and mine
    entry,      \* per caller: the ledger as it was when addBlock was entered
    calls,      \* number of addBlock calls begun so far
    overlapped, \* TRUE once a call began while another one was in progress
    probe       \* two blocks and their hashes, for Block.hash alone

vars == <<chain, pc, frame, entry, calls, overlapped, probe>>

(***************************************************************************)
(* Values.                                                                 *)
(***************************************************************************)
\* The caller of the single-threaded program, and a second one for
\* SpecInterleaved.
Main == "main"
Other == "other"
Procs == {Main, Other}

\* A JavaScript number: a finite integer or one of the non-finite values.
Num(n) == [kind |-> "finite", val |-> n]
PosInfinity == [kind |-> "Infinity", val |-> 0]
NegInfinity == [kind |-> "-Infinity", val |-> 0]
NaN == [kind |-> "NaN", val |-> 0]

\* The wallets of the model and their RSA key pairs.  A PEM key is an opaque
\* string here; the keys hold no character JSON.stringify would escape.
Wallets == {"A", "B"}
publicKey(w) == "pk" \o w
privateKey(w) == "sk" \o w
PublicKeys == {publicKey(w) : w \in Wallets}

\* new Transaction(amount, payer, payee)
Transaction(amount, payer, payee) ==
    [amount |-> amount, payer |-> payer, payee |-> payee]

\* The genesis transaction with another amount.
GenesisTransaction_noFunds == Transaction(Num(0), "genesis", "Brandon")

\* new Transaction(100, 'genesis', 'Brandon')
GenesisTransaction == Transaction(Num(100), "genesis", "Brandon")

\* The amounts callers pass: `amount: number` is not validated.
Amounts == {Num(50), PosInfinity}

\* The transactions callers other than a wallet pass to addBlock.
Transactions == {Transaction(a, publicKey("A"), publicKey("B")) : a \in Amounts}

\* Date.now(): the clock has ticked once for every call of addBlock begun.
Now == calls

\* Math.round(Math.random() * 999999999): an integer of 0..999999999, of
\* which the model draws the ones next to the first seed MD5 accepts.
Nonces == {5327, 5328}

\* The seeds a caller other than addBlock passes to mine.
Seeds == 5326..5329

\* new Block(previousHash, transaction, timestamp) with the nonce drawn
Block(previousHash, transaction, timestamp, nonce) ==
    [previousHash |-> previousHash, transaction |-> transaction,
     timestamp |-> timestamp, nonce |-> nonce]

(***************************************************************************)
(* Serialization and digests.                                              *)
(***************************************************************************)
\* JSON.stringify of a number: non-finite numbers are written as null.
NumberToJSON(n) == IF n.kind = "finite" THEN ToString(n.val) ELSE "null"

\* JSON.stringify of a string without characters to escape (a digest stands
\* for its 64 hexadecimal digits).
StringToJSON(s) == "\"" \o s \o "\""

\* Transaction.toString(): JSON.stringify(this), fields in assignment order.
toString(t) ==
    "{\"amount\":" \o NumberToJSON(t.amount)
        \o ",\"payer\":" \o StringToJSON(t.payer)
        \o ",\"payee\":" \o StringToJSON(t.payee) \o "}"

\* JSON.stringify(this) of a Block, fields in assignment order
\* (previousHash, transaction, timestamp, nonce).
BlockToJSON(b) ==
    "{\"previousHash\":" \o StringToJSON(b.previousHash)
        \o ",\"transaction\":" \o toString(b.transaction)
        \o ",\"timestamp\":" \o ToString(b.timestamp)
        \o ",\"nonce\":" \o ToString(b.nonce) \o "}"

\* crypto.createHash('SHA256') ... digest('hex'): SHA-256 is taken to be
\* collision-free, so the digest of a string is a string naming it.
SHA256(str) == "sha256(" \o str \o ")"

\* Block.hash
hash(b) == SHA256(BlockToJSON(b))

\* crypto.createHash('MD5') ... digest('hex') on the decimal strings the
\* model reaches: the digests MD5 gives them.
MD5 ==
    ("5325" :> "beb04c41b45927cf7e9f8fd4bb519e86") @@
    ("5326" :> "ac27b77292582bc293a51055bfc994ee") @@
    ("5327" :> "d693d554e0ede0d75f7d2873b015f228") @@
    ("5328" :> "59de0175dc17bcf0f4fb5ae6ae3f444f") @@
    ("5329" :> "00003e3b9e5336685200ae85d21b4f5e") @@
    ("5330" :> "cbc462e27100dad71cdbf606d396ddad") @@
    ("5331" :> "78daab4f4fce94374d8a53444c77c2c6") @@
    ("5332" :> "7070f9088e456682f0f84f815ebda761") @@
    ("5333" :> "caa89215e67b35d504b99a0b22f1c56d") @@
    ("5334" :> "9ceee7501ba30946fab8728aec06a9f5") @@
    ("5335" :> "6616758da438b02b8d360ad83a5b3d77") @@
    ("5336" :> "ba2f0015122a5955f8b3a50240fb91b2")

\* attempt.substr(0, 4)
substr4(s) == SubSeq(s, 1, 4)

(***************************************************************************)
(* Signatures: RSA with SHA-256, taken to be unforgeable and deterministic.*)
(***************************************************************************)
\* crypto.createSign('SHA256'), update(message), sign(privateKey)
Sign(key, message) == "sig(" \o key \o "," \o message \o ")"

\* crypto.createVerify('SHA256'), update(message), verify(publicKey, sig)
Verify(key, message, signature) ==
    \E w \in Wallets : key = publicKey(w) /\ signature = Sign(privateKey(w), message)

\* The signatures callers other than a wallet pass with transaction t: those
\* of the wallets over t, one over another message, and a buffer no key
\* has signed.
Signatures(t) ==
    {Sign(privateKey(w), toString(t)) : w \in Wallets}
        \cup {Sign(privateKey("A"), toString(GenesisTransaction)), "garbage"}

(***************************************************************************)
(* Chain.                                                                  *)
(***************************************************************************)
\* Chain.constructor: the chain holds the genesis block alone
NewChain(timestamp, nonce) == <<Block("", GenesisTransaction, timestamp, nonce)>>

\* lastBlock returning the first block of the chain.
lastBlock_first(c) == c[1]

\* Chain.lastBlock
lastBlock(c) == c[Len(c)]

\* The test of the loop with the digest taken of the nonce alone.
Solved_nonceOnly(nonce, solution) == substr4(MD5[ToString(nonce)]) = "0000"

\* The test of the proof-of-work loop for one value of `solution`
Solved(nonce, solution) == substr4(MD5[ToString(nonce + solution)]) = "0000"

\* A block no caller has built yet, and the frame of an idle caller.
NoBlock == Block("", GenesisTransaction, 0, 0)
NoFrame ==
    [transaction |-> GenesisTransaction, senderPublicKey |-> "", signature |-> "",
     newBlock |-> NoBlock, isValid |-> FALSE, caller |-> "none",
     nonce |-> 0, solution |-> 0]
NoEntry == [via |-> "none", chain |-> <<>>]

(***************************************************************************)
(* Initial state: Chain.instance has been constructed, nobody is calling.  *)
(***************************************************************************)
NoProbe == [a |-> NoBlock, b |-> NoBlock, hashA |-> "", hashA2 |-> "", hashB |-> "", done |-> FALSE]

\* The genesis block was built at time 0 with the nonce 5327.
Init ==
    /\ chain = NewChain(0, 5327)
    /\ pc = [p \in Procs |-> "idle"]
    /\ frame = [p \in Procs |-> NoFrame]
    /\ entry = [p \in Procs |-> NoEntry]
    /\ calls = 0
    /\ overlapped = FALSE
    /\ probe = NoProbe

(***************************************************************************)
(* Chain.addBlock, by statement.                                           *)
(***************************************************************************)
\* The number of callers inside addBlock.
Active == {p \in Procs : pc[p] # "idle"}

\* A call may begin while the two blocks it can push, and those of the calls
\* in progress, fit the bound.
MayBegin == Len(chain) + 2 * (Cardinality(Active) + 1) <= MaxChain

Enter(p, via, transaction, key, signature) ==
    /\ pc[p] = "idle"
    /\ MayBegin
    /\ pc' = [pc EXCEPT ![p] = "l92"]
    /\ frame' = [frame EXCEPT ![p] =
                    [NoFrame EXCEPT !.transaction = transaction,
                                    !.senderPublicKey = key,
                                    !.signature = signature]]
    /\ entry' = [entry EXCEPT ![p] = [via |-> via, chain |-> chain]]
    /\ calls' = calls + 1
    /\ overlapped' = (overlapped \/ Active # {})
    /\ UNCHANGED <<chain, probe>>

\* A caller other than a wallet calls Chain.instance.addBlock.
AddBlock(p) ==
    /\ pc[p] = "idle"
    /\ \E t \in Transactions, key \in PublicKeys :
          \E sig \in Signatures(t) : Enter(p, "addBlock", t, key, sig)

\* sendMoney passing the payee's key to addBlock as the sender's.
sendMoney_payeeKey(p, w) ==
    /\ pc[p] = "idle"
    /\ \E amount \in Amounts, payee \in PublicKeys \ {publicKey(w)} :
          LET transaction == Transaction(amount, publicKey(w), payee)
              signature == Sign(privateKey(w), toString(transaction))
          IN  Enter(p, "sendMoney", transaction, payee, signature)

\* Wallet.sendMoney(amount, payeePublickey) of wallet w, up to its call of
\* Chain.instance.addBlock.
sendMoney(p, w) ==
    /\ pc[p] = "idle"
    /\ \E amount \in Amounts, payee \in PublicKeys \ {publicKey(w)} :
          LET transaction == Transaction(amount, publicKey(w), payee)
              signature == Sign(privateKey(w), toString(transaction))
          IN  Enter(p, "sendMoney", transaction, publicKey(w), signature)

\* Any wallet sends money.
SendMoney(p) == \E w \in Wallets : sendMoney(p, w)

\* Each of two submitters sends money from a wallet of its own.
walletOf(p) == IF p = Main THEN "A" ELSE "B"
SendOwnMoney(p) == sendMoney(p, walletOf(p))

\* line 92: const newBlock = new Block(this.lastBlock.hash, transaction)
L92(p) ==
    /\ pc[p] = "l92"
    /\ \E n \in Nonces :
          frame' = [frame EXCEPT ![p].newBlock =
                       Block(hash(lastBlock(chain)), frame[p].transaction, Now, n)]
    /\ pc' = [pc EXCEPT ![p] = "l93"]
    /\ UNCHANGED <<chain, entry, calls, overlapped, probe>>

\* line 93 writing the block over the last one in place of pushing it.
L93_overwrite(p) ==
    /\ pc[p] = "l93"
    /\ chain' = [chain EXCEPT ![Len(chain)] = frame[p].newBlock]
    /\ pc' = [pc EXCEPT ![p] = "l94"]
    /\ UNCHANGED <<frame, entry, calls, overlapped, probe>>

\* line 93: this.chain.push(newBlock)
L93(p) ==
    /\ pc[p] = "l93"
    /\ chain' = Append(chain, frame[p].newBlock)
    /\ pc' = [pc EXCEPT ![p] = "l94"]
    /\ UNCHANGED <<frame, entry, calls, overlapped, probe>>

\* lines 94-97: isValid = verifier.verify(senderPublicKey, signature) over
\* transaction.toString()
L94(p) ==
    /\ pc[p] = "l94"
    /\ frame' = [frame EXCEPT ![p].isValid =
                    Verify(frame[p].senderPublicKey, toString(frame[p].transaction),
                           frame[p].signature)]
    /\ pc' = [pc EXCEPT ![p] = "l99"]
    /\ UNCHANGED <<chain, entry, calls, overlapped, probe>>

\* line 99: if(isValid); when it is not, addBlock returns
L99(p) ==
    /\ pc[p] = "l99"
    /\ pc' = [pc EXCEPT ![p] = IF frame[p].isValid THEN "l100" ELSE "ret"]
    /\ UNCHANGED <<chain, frame, entry, calls, overlapped, probe>>

\* line 100: const newBlock = new Block(this.lastBlock.hash, transaction)
L100(p) ==
    /\ pc[p] = "l100"
    /\ \E n \in Nonces :
          frame' = [frame EXCEPT ![p].newBlock =
                       Block(hash(lastBlock(chain)), frame[p].transaction, Now, n)]
    /\ pc' = [pc EXCEPT ![p] = "l103"]
    /\ UNCHANGED <<chain, entry, calls, overlapped, probe>>

\* line 103 and line 69: this.mine(newBlock.nonce); let solution = 1
L103(p) ==
    /\ pc[p] = "l103"
    /\ frame' = [frame EXCEPT ![p].caller = "addBlock",
                              ![p].nonce = frame[p].newBlock.nonce,
                              ![p].solution = 1]
    /\ pc' = [pc EXCEPT ![p] = "l74"]
    /\ UNCHANGED <<chain, entry, calls, overlapped, probe>>

\* The loop with an iteration cap: it returns after its first round, solved
\* or not.
L74_giveUp(p) ==
    /\ pc[p] = "l74"
    /\ pc' = [pc EXCEPT ![p] =
                 IF frame[p].caller = "addBlock" THEN "l105" ELSE "ret"]
    /\ UNCHANGED <<chain, frame, entry, calls, overlapped, probe>>

\* lines 74-87: one round of while(true): return solution when the digest
\* of nonce + solution starts with 0000, else solution += 1
L74(p) ==
    /\ pc[p] = "l74"
    /\ IF Solved(frame[p].nonce, frame[p].solution)
          THEN /\ pc' = [pc EXCEPT ![p] =
                          IF frame[p].caller = "addBlock" THEN "l105" ELSE "ret"]
               /\ UNCHANGED frame
          ELSE /\ frame[p].solution < MaxSolution
               /\ frame' = [frame EXCEPT ![p].solution = frame[p].solution + 1]
               /\ UNCHANGED pc
    /\ UNCHANGED <<chain, entry, calls, overlapped, probe>>

\* Chain.mine(nonce) called from outside addBlock; line 69: let solution = 1
Mine(p) ==
    /\ pc[p] = "idle"
    /\ \E n \in Seeds :
          frame' = [frame EXCEPT ![p] =
                       [NoFrame EXCEPT !.caller = "direct", !.nonce = n, !.solution = 1]]
    /\ pc' = [pc EXCEPT ![p] = "l74"]
    /\ entry' = [entry EXCEPT ![p] = [via |-> "mine", chain |-> chain]]
    /\ UNCHANGED <<chain, calls, overlapped, probe>>

\* line 105 storing the solution of mine in the block it pushes.
L105_storeSolution(p) ==
    /\ pc[p] = "l105"
    /\ chain' = Append(chain, [frame[p].newBlock EXCEPT !.nonce = frame[p].solution])
    /\ pc' = [pc EXCEPT ![p] = "ret"]
    /\ UNCHANGED <<frame, entry, calls, overlapped, probe>>

\* line 105 with unshift in place of push.
L105_unshift(p) ==
    /\ pc[p] = "l105"
    /\ chain' = <<frame[p].newBlock>> \o chain
    /\ pc' = [pc EXCEPT ![p] = "ret"]
    /\ UNCHANGED <<frame, entry, calls, overlapped, probe>>

\* line 105: this.chain.push(newBlock)
L105(p) ==
    /\ pc[p] = "l105"
    /\ chain' = Append(chain, frame[p].newBlock)
    /\ pc' = [pc EXCEPT ![p] = "ret"]
    /\ UNCHANGED <<frame, entry, calls, overlapped, probe>>

\* addBlock, or mine called from outside it, returns to its caller
Return(p) ==
    /\ pc[p] = "ret"
    /\ pc' = [pc EXCEPT ![p] = "idle"]
    /\ frame' = [frame EXCEPT ![p] = NoFrame]
    /\ entry' = [entry EXCEPT ![p] = NoEntry]
    /\ UNCHANGED <<chain, calls, overlapped, probe>>

Step(p) ==
    \/ L92(p)
    \/ L93(p)
    \/ L94(p)
    \/ L99(p)
    \/ L100(p)
    \/ L103(p)
    \/ L74(p)
    \/ L105(p)
    \/ Return(p)

(***************************************************************************)
(* The program: every admission runs to completion before the next.        *)
(***************************************************************************)
Next ==
    \/ AddBlock(Main)
    \/ SendMoney(Main)
    \/ Mine(Main)
    \/ Step(Main)

Spec == Init /\ [][Next]_vars

(***************************************************************************)
(* Two submitters whose admissions take their steps in any order, with no  *)
(* mutual exclusion around addBlock.                                       *)
(***************************************************************************)
NextInterleaved == \E p \in Procs : SendOwnMoney(p) \/ Step(p)

SpecInterleaved == Init /\ [][NextInterleaved]_vars

(***************************************************************************)
(* The program, whose synchronous calls keep running: a call of addBlock   *)
(* or mine that can take its next statement takes it.                      *)
(***************************************************************************)
SpecFair == Spec /\ WF_vars(Step(Main))

(***************************************************************************)
(* Block.hash alone: two blocks are drawn and their hashes are read.       *)
(***************************************************************************)
ProbeAmounts == {Num(50), Num(100), PosInfinity, NegInfinity, NaN}
ProbeTransactions ==
    {Transaction(a, p, q) : a \in ProbeAmounts, p \in PublicKeys, q \in PublicKeys}
ProbeHashes == {"", hash(NoBlock)}
ProbeTimestamps == {0, 1}
ProbeBlocks ==
    {Block(h, t, ts, n) : h \in ProbeHashes, t \in ProbeTransactions,
                          ts \in ProbeTimestamps, n \in Nonces}

InitHash ==
    /\ chain = NewChain(0, 5327)
    /\ pc = [p \in Procs |-> "idle"]
    /\ frame = [p \in Procs |-> NoFrame]
    /\ entry = [p \in Procs |-> NoEntry]
    /\ calls = 0
    /\ overlapped = FALSE
    /\ \E a \in ProbeBlocks, b \in ProbeBlocks :
          probe = [NoProbe EXCEPT !.a = a, !.b = b]

\* a.hash is read twice and b.hash once
ReadHashes ==
    /\ ~probe.done
    /\ probe' = [probe EXCEPT !.hashA = hash(probe.a), !.hashA2 = hash(probe.a),
                              !.hashB = hash(probe.b), !.done = TRUE]
    /\ UNCHANGED <<chain, pc, frame, entry, calls, overlapped>>

NextHash == ReadHashes

SpecHash == InitHash /\ [][NextHash]_vars

(***************************************************************************)
(* What the specification says of the ledger.                              *)
(***************************************************************************)
\* addBlock has returned to its caller p
Returned(p) == pc[p] = "ret" /\ entry[p].via \in {"addBlock", "sendMoney"}

\* The state of the admission of caller p, in the specification's words.
Phase(p) ==
    CASE pc[p] \in {"l92", "l93", "l94"} -> "RECEIVED"
      [] pc[p] = "l99" -> "SIGNATURE_CHECKED"
      [] pc[p] \in {"l100", "l103", "l105"} -> "MINING"
      [] pc[p] = "l74" /\ frame[p].caller = "addBlock" -> "MINING"
      [] Returned(p) /\ frame[p].isValid -> "APPENDED"
      [] Returned(p) /\ ~frame[p].isValid -> "REJECTED"
      [] OTHER -> "NONE"

\* C1: when the signature does not verify, addBlock returns with the ledger
\* as it was when it was called: no block has been appended.
C1_InvalidSignatureLeavesLedger ==
    \A p \in Procs :
        Returned(p) /\ ~frame[p].isValid => chain = entry[p].chain

\* C2: when the signature verifies, addBlock returns with exactly one block
\* more, whose previousHash is the hash lastBlock had when it was called.
C2_ValidSignatureAppendsOne ==
    \A p \in Procs :
        Returned(p) /\ frame[p].isValid =>
            /\ Len(chain) = Len(entry[p].chain) + 1
            /\ lastBlock(chain).previousHash = hash(lastBlock(entry[p].chain))

\* C3: chain linkage: every block after the first stores, as previousHash,
\* the hash recomputed from the fields of the block stored before it.
C3_ChainLinkage ==
    \A i \in 2..Len(chain) : chain[i].previousHash = hash(chain[i - 1])

\* Two admissions have run to completion, one of them with a valid signature.
C3_Witness == pc[Main] = "idle" /\ Len(chain) >= 4

\* C4: within an admission nothing is appended before the signature has been
\* found valid and the proof-of-work search has returned: in RECEIVED,
\* SIGNATURE_CHECKED, MINING and REJECTED the chain is as it was at the call.
C4_AppendOnlyAfterCheckAndMine ==
    \A p \in Procs :
        Phase(p) \in {"RECEIVED", "SIGNATURE_CHECKED", "MINING", "REJECTED"} =>
            chain = entry[p].chain

\* C5: a freshly constructed chain holds exactly one block, with previousHash
\* "" and the transaction of 100 from "genesis" to "Brandon".
C5_Genesis ==
    calls = 0 =>
        /\ Len(chain) = 1
        /\ chain[1].previousHash = ""
        /\ chain[1].transaction.amount = Num(100)
        /\ chain[1].transaction.payer = "genesis"
        /\ chain[1].transaction.payee = "Brandon"

\* The chain as constructed, before any call of addBlock.
C5_Witness == calls = 0 /\ Len(chain) = 1 /\ pc[Main] = "idle"

\* mine has returned frame[p].solution to its caller
MineReturned(p) ==
    \/ pc[p] = "l105"
    \/ pc[p] = "ret" /\ entry[p].via = "mine"

\* the digest of seed + s starts with the prefix "0000"
HasPrefix(seed, s) == SubSeq(MD5[ToString(seed + s)], 1, 4) = "0000"

\* C6: when mine returns S for a seed, S is a positive integer, the digest of
\* seed + S starts with "0000", and no positive integer below S does so.
C6_MineFirstHit ==
    \A p \in Procs :
        MineReturned(p) =>
            /\ frame[p].solution >= 1
            /\ HasPrefix(frame[p].nonce, frame[p].solution)
            /\ \A k \in 1..(frame[p].solution - 1) : ~HasPrefix(frame[p].nonce, k)

\* mine has returned a solution it reached after a miss
C6_Witness == \E p \in Procs : MineReturned(p) /\ frame[p].solution >= 2

\* C7: wallet A sends 50 to B on a ledger holding the genesis block alone:
\* when addBlock returns the ledger holds 2 blocks and chain[1], the second
\* block, holds the amount 50.
C7_EndToEnd ==
    \A p \in Procs :
        (/\ Returned(p)
         /\ entry[p].via = "sendMoney"
         /\ frame[p].transaction = Transaction(Num(50), publicKey("A"), publicKey("B"))
         /\ Len(entry[p].chain) = 1)
            => Len(chain) = 2 /\ chain[2].transaction.amount = Num(50)

\* The values a field of a stored block may be changed to.
TamperAmounts == {Num(50), Num(51), Num(100), PosInfinity, NegInfinity, NaN}
TamperNames == PublicKeys \cup {"genesis", "Brandon"}
TamperHashes == {"", "0000"}

\* The blocks that differ from b in exactly one field.
Tampered(b) ==
    {[b EXCEPT !.transaction.amount = a] : a \in TamperAmounts \ {b.transaction.amount}}
        \cup {[b EXCEPT !.transaction.payer = x] : x \in TamperNames \ {b.transaction.payer}}
        \cup {[b EXCEPT !.transaction.payee = x] : x \in TamperNames \ {b.transaction.payee}}
        \cup {[b EXCEPT !.previousHash = h] : h \in TamperHashes \ {b.previousHash}}
        \cup {[b EXCEPT !.timestamp = b.timestamp + 1], [b EXCEPT !.nonce = b.nonce + 1]}

\* C8: tamper detection: changing any one field of a stored block that has a
\* successor makes its recomputed hash differ from the successor's
\* previousHash.
C8_TamperDetected ==
    \A i \in 1..(Len(chain) - 1) :
        \A t \in Tampered(chain[i]) : hash(t) # chain[i + 1].previousHash

\* The fields of a block in which a and b differ.
DifferingFields(a, b) ==
    {f \in {"previousHash", "timestamp", "nonce"} : a[f] # b[f]}
        \cup {f \in {"amount", "payer", "payee"} : a.transaction[f] # b.transaction[f]}

\* C9: hash determinism: a block read twice gives the same hash, two blocks
\* with the same field values have the same hash, and two blocks that differ
\* in a single field have different hashes.
C9_HashDeterminism ==
    probe.done =>
        /\ probe.hashA = probe.hashA2
        /\ (probe.a = probe.b => probe.hashA = probe.hashB)
        /\ (Cardinality(DifferingFields(probe.a, probe.b)) = 1 =>
                probe.hashA # probe.hashB)

\* C10: without mutual exclusion a state is reachable in which a block's
\* previousHash is not the hash of the block before it; as long as every
\* admission has run to completion before the next began, there is none.
C10_BrokenOnlyWhenInterleaved == ~overlapped => C3_ChainLinkage

\* Two admissions have interleaved and the linkage is broken.
C10_Witness == overlapped /\ ~C3_ChainLinkage

\* The chain is not empty, starts with the genesis block and ends with
\* lastBlock.
GenesisFirst ==
    /\ Len(chain) >= 1
    /\ chain[1].previousHash = ""
    /\ chain[1].transaction = GenesisTransaction
    /\ lastBlock(chain) = chain[Len(chain)]

\* A step keeps every block of the chain where and as it is.
KeepsBlocks ==
    /\ Len(chain') >= Len(chain)
    /\ \A i \in 1..Len(chain) : chain'[i] = chain[i]

\* C11: the ledger is append-only and never empty: the chain always holds at
\* least one block, chain[0] is the genesis block, lastBlock is the element
\* at index length-1, and no step of addBlock or mine shortens the chain or
\* changes the index or a field of a block already in it.
C11_AppendOnly == []GenesisFirst /\ [][KeepsBlocks]_vars

\* Calls of addBlock have grown the chain to the bound.
C11_Witness == Len(chain) = MaxChain /\ pc[Main] = "idle"


\* mine is searching for caller p, and a solution lies ahead of it
Searching(p) ==
    /\ pc[p] = "l74"
    /\ \E s \in frame[p].solution..MaxSolution : HasPrefix(frame[p].nonce, s)

\* A step of the proof-of-work loop either goes on with the next value of
\* solution or returns a solution to the caller of mine.
ExitsOnlySolved ==
    \A p \in Procs :
        pc[p] = "l74" /\ (pc'[p] # "l74" \/ frame'[p] # frame[p]) =>
            \/ /\ pc'[p] = "l74"
               /\ ~HasPrefix(frame[p].nonce, frame[p].solution)
               /\ frame'[p] = [frame[p] EXCEPT !.solution = frame[p].solution + 1]
            \/ /\ pc'[p] = IF frame[p].caller = "addBlock" THEN "l105" ELSE "ret"
               /\ HasPrefix(frame[p].nonce, frame[p].solution)
               /\ frame'[p] = frame[p]

\* addBlock has found the signature of caller p valid
FoundValid(p) == pc[p] = "l99" /\ frame[p].isValid

\* addBlock has pushed the mined block of caller p and returned
Appended(p) ==
    Returned(p) /\ frame[p].isValid /\ lastBlock(chain) = frame[p].newBlock

\* C12: a call of addBlock with a valid signature reaches the append: the
\* search of mine returns whenever a solution lies ahead of it, and it leaves
\* its loop in no other way than by returning a solution.
C12_MineReturns ==
    /\ Searching(Main) ~> MineReturned(Main)
    /\ FoundValid(Main) ~> Appended(Main)
    /\ [][ExitsOnlySolved]_vars

\* mine, called by addBlock, has returned a solution it reached after a miss
C12_Witness ==
    pc[Main] = "l105" /\ frame[Main].caller = "addBlock" /\ frame[Main].solution = 2

\* A step taken inside mine changes the counter of the search and nothing
\* else: the chain, and with it every block's nonce, stays as it is.
MineKeepsChain ==
    \A p \in Procs :
        pc[p] = "l74" =>
            /\ chain' = chain
            /\ frame'[p] = [frame[p] EXCEPT !.solution = frame'[p].solution]

\* When mine, called from outside addBlock, has returned, the chain is as it
\* was at the call; when addBlock has returned after mining, the block it
\* appended is the block as constructed at line 100, its nonce the seed
\* given to mine, and the solution is in none of its fields.
SolutionNotStored ==
    \A p \in Procs :
        /\ (pc[p] = "ret" /\ entry[p].via = "mine" => chain = entry[p].chain)
        /\ (Returned(p) /\ frame[p].isValid =>
                /\ lastBlock(chain) = frame[p].newBlock
                /\ lastBlock(chain).nonce = frame[p].nonce
                /\ lastBlock(chain).nonce \in Nonces
                /\ DOMAIN lastBlock(chain) =
                       {"previousHash", "transaction", "timestamp", "nonce"})

\* C13: mine changes nothing but its own search variable: the chain, its
\* length and every block's nonce are the same when mine returns as before,
\* and the solution is not stored in the appended block, whose nonce is still
\* the random value of its construction.
C13_MineChangesNothing == []SolutionNotStored /\ [][MineKeepsChain]_vars

\* addBlock has returned after mine found a solution on its second round
C13_Witness ==
    Returned(Main) /\ frame[Main].isValid /\ frame[Main].solution = 2

\* C14: every call of sendMoney reaches addBlock with a signature that
\* verifies: once the verifier has run, isValid is true.
C14_SendMoneyVerifies ==
    \A p \in Procs :
        (/\ entry[p].via = "sendMoney"
         /\ pc[p] \in {"l99", "l100", "l103", "l74", "l105", "ret"})
            => frame[p].isValid

\* The verifier has run on a transfer of a non-finite amount sent by wallet B.
C14_Witness ==
    /\ entry[Main].via = "sendMoney"
    /\ pc[Main] = "l99"
    /\ frame[Main].isValid
    /\ frame[Main].transaction = Transaction(PosInfinity, publicKey("B"), publicKey("A"))

=============================================================================
